---- MODULE Spec2Model ----
(***************************************************************************)
(* Model of the imaging core of opencv-game-engine:                        *)
(*   src/median_blur.c  partition / quick_sort / quartiles / median_blur   *)
(*   src/calibration.c  in_box / overlay_frame / final_calibration /       *)
(*                      generic_calibration / calibrate                    *)
(* C arrays are 0-based; a C index k is element k + 1 of a TLA+ sequence.  *)
(***************************************************************************)
EXTENDS Integers, Sequences, FiniteSets, TLC

VARIABLES
  array_list,   \* the byte array handed to partition/quick_sort/median
  old_list,     \* array_list as it was when the call was made
  fn,           \* which function of median_blur.c was applied to array_list
  left, right,  \* the index range of the partition call
  ret,          \* the value the call returned
  frame,        \* the IplImage in use (NoFrame is the null pointer)
  captured,     \* the frame as the caller / capture stream delivered it
  reg_x, reg_y, reg_height, reg_width,   \* the centre box
  pc,           \* position inside calibrate / median_blur
  timer,        \* calibrate's iteration counter
  calibration,  \* the calibration_t band
  x, y, yo, xo, \* median_blur's loop variables
  layout,       \* what the build placed right behind median_blur's buffer
  key           \* the last result of cvWaitKey

vars == <<array_list, old_list, fn, left, right, ret, frame, captured,
          reg_x, reg_y, reg_height, reg_width, pc, timer, calibration,
          x, y, yo, xo, layout, key>>

sortVars == <<array_list, old_list, fn, left, right, ret>>
regVars  == <<reg_x, reg_y, reg_height, reg_width>>
blurVars == <<x, y, yo, xo, layout>>
calVars  == <<pc, timer, calibration, key>>

(***************************************************************************)
(* Bounds of the model.                                                    *)
(***************************************************************************)
MaxLen == 5       \* longest byte array given to partition and the quartiles
MaxVal == 2       \* byte arrays hold values 0..MaxVal

Min(a, b) == IF a < b THEN a ELSE b
Max(a, b) == IF a > b THEN a ELSE b

NoFrame == [width |-> 0, height |-> 0, nChannels |-> 0, widthStep |-> 0,
            imageData |-> <<>>]

(***************************************************************************)
(* median_blur.c: swap, partition, quick_sort, the three order statistics. *)
(***************************************************************************)
swap(a, i, j) == [a EXCEPT ![i + 1] = a[j + 1], ![j + 1] = a[i + 1]]

\* for (; i <= right && array_list[i] <= pivot; i++);
RECURSIVE ScanLeft(_, _, _, _)
ScanLeft(a, i, r, pivot) ==
  IF i <= r /\ a[i + 1] <= pivot THEN ScanLeft(a, i + 1, r, pivot) ELSE i

\* for (; array_list[j] > pivot; j--);
RECURSIVE ScanRight(_, _, _)
ScanRight(a, j, pivot) ==
  IF a[j + 1] > pivot THEN ScanRight(a, j - 1, pivot) ELSE j

\* while (i < j) { scan; scan; if (i < j) swap; }
RECURSIVE PartitionLoop(_, _, _, _, _)
PartitionLoop(a, i, j, r, pivot) ==
  IF i < j
    THEN LET i2 == ScanLeft(a, i, r, pivot)
             j2 == ScanRight(a, j, pivot)
             a2 == IF i2 < j2 THEN swap(a, i2, j2) ELSE a
         IN  PartitionLoop(a2, i2, j2, r, pivot)
    ELSE [a |-> a, i |-> i, j |-> j]

\* The mutant of partition that forgets to move the pivot to the split point.
partition_no_final_swap(a, l, r) ==
  LET after == PartitionLoop(a, l, r, r, a[l + 1])
  IN  [array_list |-> after.a, ret |-> after.j]

partition(a, l, r) ==
  LET after == PartitionLoop(a, l, r, r, a[l + 1])
  IN  [array_list |-> swap(after.a, l, after.j), ret |-> after.j]

\* The mutant of quick_sort that forgets the recursion on the right part.
RECURSIVE quick_sort_left_only(_, _, _)
quick_sort_left_only(a, l, r) ==
  IF l < r
    THEN LET p == partition(a, l, r)
         IN  quick_sort_left_only(p.array_list, l, p.ret - 1)
    ELSE a

RECURSIVE quick_sort(_, _, _)
quick_sort(a, l, r) ==
  IF l < r
    THEN LET p  == partition(a, l, r)
             a1 == quick_sort(p.array_list, l, p.ret - 1)
         IN  quick_sort(a1, p.ret + 1, r)
    ELSE a

lower_quartile(a, num_elements) ==
  LET s == quick_sort(a, 0, num_elements - 1)
  IN  [array_list |-> s, ret |-> s[((num_elements - 1) \div 4) + 1]]

median(a, num_elements) ==
  LET s == quick_sort(a, 0, num_elements - 1)
  IN  [array_list |-> s, ret |-> s[((num_elements - 1) \div 2) + 1]]

upper_quartile(a, num_elements) ==
  LET s == quick_sort(a, 0, num_elements - 1)
  IN  [array_list |-> s, ret |-> s[((3 * (num_elements - 1)) \div 4) + 1]]

(***************************************************************************)
(* Specification SortSpec: the functions above applied to every byte array *)
(* of length 1..MaxLen over 0..MaxVal.                                     *)
(***************************************************************************)
ByteArrays == UNION {[1..n -> 0..MaxVal] : n \in 1..MaxLen}

NoImaging ==
  /\ frame = NoFrame /\ captured = NoFrame
  /\ reg_x = 0 /\ reg_y = 0 /\ reg_height = 0 /\ reg_width = 0
  /\ pc = "idle" /\ timer = 0 /\ calibration = <<>> /\ key = "none"
  /\ x = 0 /\ y = 0 /\ yo = 0 /\ xo = 0 /\ layout = <<>>

SortInit ==
  /\ array_list \in ByteArrays
  /\ old_list = array_list
  /\ fn = "none" /\ left = 0 /\ right = 0 /\ ret = 0
  /\ NoImaging

CallPartition ==
  /\ fn = "none"
  /\ \E l \in 0..(Len(array_list) - 1) : \E r \in l..(Len(array_list) - 1) :
       LET p == partition(array_list, l, r)
       IN  /\ array_list' = p.array_list
           /\ ret' = p.ret
           /\ left' = l /\ right' = r
  /\ fn' = "partition"
  /\ UNCHANGED <<old_list, frame, captured, regVars, calVars, blurVars>>

CallLowerQuartile ==
  /\ fn = "none"
  /\ LET q == lower_quartile(array_list, Len(array_list))
     IN  array_list' = q.array_list /\ ret' = q.ret
  /\ fn' = "lower_quartile"
  /\ UNCHANGED <<old_list, left, right, frame, captured, regVars, calVars,
                 blurVars>>

CallMedian ==
  /\ fn = "none"
  /\ LET q == median(array_list, Len(array_list))
     IN  array_list' = q.array_list /\ ret' = q.ret
  /\ fn' = "median"
  /\ UNCHANGED <<old_list, left, right, frame, captured, regVars, calVars,
                 blurVars>>

CallUpperQuartile ==
  /\ fn = "none"
  /\ LET q == upper_quartile(array_list, Len(array_list))
     IN  array_list' = q.array_list /\ ret' = q.ret
  /\ fn' = "upper_quartile"
  /\ UNCHANGED <<old_list, left, right, frame, captured, regVars, calVars,
                 blurVars>>

SortNext == CallPartition \/ CallLowerQuartile \/ CallMedian \/ CallUpperQuartile

SortSpec == SortInit /\ [][SortNext]_vars

(***************************************************************************)
(* Claims about partition and the order statistics.                        *)
(***************************************************************************)
Count(a, v, lo, hi) == Cardinality({k \in lo..hi : a[k + 1] = v})

\* The value at index k of the ascending order of the multiset held by a:
\* the v with (number of elements < v) <= k < (number of elements <= v).
Ranked(a, k) ==
  CHOOSE v \in 0..255 :
    /\ Cardinality({n \in 1..Len(a) : a[n] < v}) <= k
    /\ k < Cardinality({n \in 1..Len(a) : a[n] <= v})

\* C4: partition(array, left, right) returns j in [left, right] with every
\* element of [left, j-1] <= array[j] and every element of [j+1, right]
\* >= array[j]; the range is a permutation of what it held and the elements
\* outside the range are unchanged (all-equal arrays included).
C4_PartitionCorrect ==
  fn = "partition" =>
    /\ ret \in left..right
    /\ Len(array_list) = Len(old_list)
    /\ \A k \in left..(ret - 1) : array_list[k + 1] <= array_list[ret + 1]
    /\ \A k \in (ret + 1)..right : array_list[k + 1] >= array_list[ret + 1]
    /\ \A v \in 0..MaxVal :
         Count(array_list, v, left, right) = Count(old_list, v, left, right)
    /\ \A k \in 0..(Len(old_list) - 1) :
         (k < left \/ k > right) => array_list[k + 1] = old_list[k + 1]

\* A partition call on a range of three or more elements that had to swap a
\* crossing pair and put the pivot strictly inside the range.
C4_Witness ==
  /\ fn = "partition"
  /\ right - left >= 2
  /\ old_list[left + 1] = 1 /\ old_list[left + 2] = 2 /\ old_list[right + 1] = 0
  /\ ret > left /\ ret < right

\* C5: lower_quartile, median and upper_quartile return the elements at
\* index floor((N-1)/4), floor((N-1)/2), floor(3(N-1)/4) of the ascending
\* order of the input multiset (so the result does not depend on the order
\* of the input, and is the single element when N = 1).
C5_OrderStatistics ==
  LET N == Len(old_list) IN
    /\ fn = "lower_quartile" => ret = Ranked(old_list, (N - 1) \div 4)
    /\ fn = "median"         => ret = Ranked(old_list, (N - 1) \div 2)
    /\ fn = "upper_quartile" => ret = Ranked(old_list, (3 * (N - 1)) \div 4)

\* The upper quartile of a five-element array given in descending order, where
\* the three statistics are three different values.
C5_Witness ==
  /\ fn = "upper_quartile"
  /\ Len(old_list) = 5
  /\ old_list[1] = 2 /\ old_list[2] = 2 /\ old_list[3] = 1 /\ old_list[5] = 0
  /\ ret = 2

(***************************************************************************)
(* calibration.c: frames, in_box and overlay_frame.                        *)
(* A frame is an IplImage: imageData is the flat byte buffer of            *)
(* height * widthStep bytes; the byte of pixel (px, py), channel w, is at  *)
(* offset py * widthStep + px * nChannels + w.                             *)
(***************************************************************************)
MaxDim == 3       \* widest / tallest frame handed to overlay_frame alone

Offset(f, px, py, w) == py * f.widthStep + px * f.nChannels + w

ByteAt(f, px, py, w) == f.imageData[Offset(f, px, py, w) + 1]

\* The pixel column an offset belongs to, or -1 for a byte of row padding.
ColumnOf(f, o) ==
  LET inRow == o % f.widthStep
  IN  IF inRow < f.width * f.nChannels THEN inRow \div f.nChannels ELSE -1

RowOf(f, o) == o \div f.widthStep

in_box(px, py, box_x, box_y, width, height) ==
  /\ px > box_x - width
  /\ px < box_x + width
  /\ py > box_y - height
  /\ py < box_y + height

\* Every byte of every pixel outside the box becomes (unsigned char) byte / 4.
overlay_frame(f, rx, ry, rh, rw) ==
  [f EXCEPT !.imageData =
     [k \in 1..Len(f.imageData) |->
        LET px == ColumnOf(f, k - 1)
            py == RowOf(f, k - 1)
        IN  IF px >= 0 /\ py < f.height /\ ~in_box(px, py, rx, ry, rw, rh)
              THEN f.imageData[k] \div 4
              ELSE f.imageData[k]]]

(***************************************************************************)
(* Specification OverlaySpec: overlay_frame applied once to small frames   *)
(* of one or three channels, with and without row padding, for every box.  *)
(***************************************************************************)
\* A frame whose byte at offset o is 255 - (o * step) % 200: no byte is 0, so
\* dividing a byte by 4 always changes it.
TestFrame(w, h, n, pad, step) ==
  [width |-> w, height |-> h, nChannels |-> n, widthStep |-> w * n + pad,
   imageData |-> [k \in 1..(h * (w * n + pad)) |-> 255 - (((k - 1) * step) % 200)]]

OverlayInit ==
  /\ \E w \in 1..MaxDim, h \in 1..MaxDim, n \in {1, 3}, pad \in {0, 1},
        step \in {0, 7} :
       frame = TestFrame(w, h, n, pad, step)
  /\ captured = frame
  /\ reg_x = 0 /\ reg_y = 0 /\ reg_height = 0 /\ reg_width = 0
  /\ pc = "idle" /\ timer = 0 /\ calibration = <<>> /\ key = "none"
  /\ x = 0 /\ y = 0 /\ yo = 0 /\ xo = 0 /\ layout = <<>>
  /\ array_list = <<>> /\ old_list = <<>>
  /\ fn = "none" /\ left = 0 /\ right = 0 /\ ret = 0

CallOverlayFrame ==
  /\ pc = "idle"
  /\ \E rx \in 0..MaxDim, ry \in 0..MaxDim, rh \in 0..MaxDim, rw \in 0..MaxDim :
       /\ frame' = overlay_frame(frame, rx, ry, rh, rw)
       /\ reg_x' = rx /\ reg_y' = ry /\ reg_height' = rh /\ reg_width' = rw
  /\ pc' = "overlaid"
  /\ UNCHANGED <<sortVars, captured, timer, calibration, key, blurVars>>

OverlayNext == CallOverlayFrame

OverlaySpec == OverlayInit /\ [][OverlayNext]_vars

\* Every pixel coordinate of the frame lies within the box, edges included;
\* a box of zero extent covers nothing.
RegionCovers(f, rx, ry, rh, rw) ==
  /\ rw > 0 /\ rh > 0
  /\ \A px \in 0..(f.width - 1), py \in 0..(f.height - 1) :
       /\ rx - rw <= px /\ px <= rx + rw
       /\ ry - rh <= py /\ py <= ry + rh

\* C6: overlay_frame with a region that fully covers the frame (every pixel
\* coordinate lies within reg_x - reg_width .. reg_x + reg_width and
\* reg_y - reg_height .. reg_y + reg_height) leaves every byte unchanged.
C6_CoveringRegionLeavesFrame ==
  (pc = "overlaid" /\ RegionCovers(captured, reg_x, reg_y, reg_height, reg_width))
    => frame = captured

(***************************************************************************)
(* The collaborators calibrate calls: cvFlip, cvCvtColor, cvQueryFrame.    *)
(***************************************************************************)
\* cvFlip(frame, frame, 1): every row is mirrored; row padding is left alone.
cvFlip(f) ==
  [f EXCEPT !.imageData =
     [k \in 1..Len(f.imageData) |->
        LET px == ColumnOf(f, k - 1)
            py == RowOf(f, k - 1)
            w  == ((k - 1) % f.widthStep) % f.nChannels
        IN  IF px >= 0 THEN ByteAt(f, f.width - 1 - px, py, w)
                       ELSE f.imageData[k]]]

\* One BGR pixel as 8-bit HSV: V = max, S = 255 * (max - min) / max, H = half
\* the hue angle in degrees, each rounded to the nearest integer.
BGR2HSV(b, g, r) ==
  LET v    == Max(b, Max(g, r))
      mn   == Min(b, Min(g, r))
      diff == v - mn
      sat  == IF v = 0 THEN 0 ELSE (255 * diff + v \div 2) \div v
      n    == IF v = r THEN 60 * (g - b)
              ELSE IF v = g THEN 120 * diff + 60 * (b - r)
              ELSE 240 * diff + 60 * (r - g)
      pos  == IF n < 0 THEN n + 360 * diff ELSE n
      hue  == IF diff = 0 THEN 0 ELSE ((pos + diff) \div (2 * diff)) % 180
  IN  <<hue, sat, v>>

\* One 8-bit HSV pixel back as BGR.
HSV2BGR(h, s, v) ==
  LET deg    == 2 * h
      sector == (deg \div 60) % 6
      f      == deg % 60
      p      == (v * (255 - s) + 127) \div 255
      q      == (v * (255 * 60 - s * f) + 7650) \div 15300
      t      == (v * (255 * 60 - s * (60 - f)) + 7650) \div 15300
  IN  CASE sector = 0 -> <<p, t, v>>
        [] sector = 1 -> <<p, v, q>>
        [] sector = 2 -> <<t, v, p>>
        [] sector = 3 -> <<v, q, p>>
        [] sector = 4 -> <<v, p, t>>
        [] OTHER      -> <<q, p, v>>

\* cvCvtColor(frame, frame, code) on a three-channel frame, pixel by pixel.
cvCvtColor(f, code) ==
  [f EXCEPT !.imageData =
     [k \in 1..Len(f.imageData) |->
        LET px == ColumnOf(f, k - 1)
            py == RowOf(f, k - 1)
            w  == ((k - 1) % f.widthStep) % f.nChannels
            c0 == ByteAt(f, px, py, 0)
            c1 == ByteAt(f, px, py, 1)
            c2 == ByteAt(f, px, py, 2)
        IN  IF px >= 0
              THEN IF code = "CV_BGR2HSV" THEN BGR2HSV(c0, c1, c2)[w + 1]
                                          ELSE HSV2BGR(c0, c1, c2)[w + 1]
              ELSE f.imageData[k]]]

NumColours == 1   \* how many different scenes the capture stream can show

FrameHeight == 20
FrameWidths == {20, 21}

\* The BGR colour of scene c.
Colour(c) ==
  CASE c = 1 -> <<0, 0, 255>>
    [] c = 2 -> <<200, 200, 200>>
    [] OTHER -> <<(40 * c) % 256, (80 * c) % 256, (120 * c) % 256>>

\* A frame of the capture stream: scene c, w pixels wide, rows aligned to four
\* bytes; the right half of the picture has 16 less in its green channel.
CaptureFrame(c, w) ==
  LET ws == 4 * ((3 * w + 3) \div 4) IN
  [width |-> w, height |-> FrameHeight, nChannels |-> 3, widthStep |-> ws,
   imageData |->
     [k \in 1..(FrameHeight * ws) |->
        LET inRow == (k - 1) % ws
            px    == inRow \div 3
            ch    == inRow % 3
        IN  IF inRow >= 3 * w THEN 0
            ELSE IF ch = 1 /\ px >= w \div 2
                   THEN (Colour(c)[2] + 240) % 256
                   ELSE Colour(c)[ch + 1]]]

\* A function or sequence written out element by element.
Explicit(f) == f @@ <<>>

ExplicitFrame(f) == [f EXCEPT !.imageData = Explicit(f.imageData)]

\* What cvQueryFrame can return: a frame, or the null pointer.
CaptureStream ==
  {NoFrame} \cup {ExplicitFrame(CaptureFrame(c, w)) :
                     c \in 1..NumColours, w \in FrameWidths}

\* The box calibrate fixes on the first frame it sees, lines 160-165.
CentreBox(f) ==
  [reg_x |-> f.width \div 2, reg_y |-> f.height \div 2,
   reg_height |-> f.height \div 20, reg_width |-> f.width \div 20]

\* Lines 167-168: the overlay, then the horizontal mirror.
Show(f, rx, ry, rh, rw) == cvFlip(overlay_frame(f, rx, ry, rh, rw))

\* Show and the conversion to HSV of every frame of the stream under its own
\* centre box, evaluated once: the actions look the results up here.
ShownStream ==
  Explicit([f \in CaptureStream \ {NoFrame} |->
              ExplicitFrame(Show(f, CentreBox(f).reg_x, CentreBox(f).reg_y,
                                 CentreBox(f).reg_height, CentreBox(f).reg_width))])

HSVStream ==
  Explicit([f \in {ShownStream[g] : g \in DOMAIN ShownStream} |->
              ExplicitFrame(cvCvtColor(f, "CV_BGR2HSV"))])

Shown(f, rx, ry, rh, rw) ==
  IF [reg_x |-> rx, reg_y |-> ry, reg_height |-> rh, reg_width |-> rw] = CentreBox(f)
    THEN ShownStream[f]
    ELSE Show(f, rx, ry, rh, rw)

InHSV(f) == IF f \in DOMAIN HSVStream THEN HSVStream[f] ELSE cvCvtColor(f, "CV_BGR2HSV")

\* What cvWaitKey(10) can return: the confirm key, or anything else (another
\* key, or no key within the ten milliseconds).
Keys == {"q", "none"}

(***************************************************************************)
(* calibration.c: final_calibration, generic_calibration, calibrate.       *)
(***************************************************************************)
TimerBudget == 90

\* The bytes of channel w inside the sampled box, in the order the two nested
\* loops of final_calibration store them (rows, then columns).
Sample(f, rx, ry, rh, rw, w) ==
  LET cols == IF rw > 0 THEN 2 * rw ELSE 0
      rows == IF rh > 0 THEN 2 * rh ELSE 0
  IN  [i \in 1..(rows * cols) |->
         ByteAt(f, rx - rw + ((i - 1) % cols), ry - rh + ((i - 1) \div cols), w)]

RECURSIVE Sum(_, _)
Sum(a, n) == IF n = 0 THEN 0 ELSE a[n] + Sum(a, n - 1)

\* avg: the arithmetic mean of the sampled bytes, as an unsigned char.
avg(a) == Sum(a, Len(a)) \div Len(a)

\* (unsigned char) (v * (1 - range)) with range = 0.4 in double arithmetic.
ScaleDown(v) == (6 * v) \div 10

\* The v in 0..255 whose double product v * (1 + 0.4) falls just below the
\* integer 14 v / 10, so that the conversion truncates to one less.
RoundsBelow == {45, 85, 90, 165, 170, 175, 180}

\* v * (1 + range) truncated to an integer.
ScaleUp(v) == ((14 * v) \div 10) - (IF v \in RoundsBelow THEN 1 ELSE 0)

\* The unsigned char a truncated double d is stored as.  Above 255 the
\* conversion is undefined: builds keep the low eight bits or saturate.
Narrow(d) == IF d <= 255 THEN {d} ELSE {d % 256, 255}

\* The bands final_calibration can leave in *c.
final_calibration(f, rx, ry, rh, rw) ==
  LET h == avg(Sample(f, rx, ry, rh, rw, 0))
      s == avg(Sample(f, rx, ry, rh, rw, 1))
      v == avg(Sample(f, rx, ry, rh, rw, 2))
  IN  {[done |-> TRUE,
        h_max |-> hx, h_min |-> ScaleDown(h),
        s_max |-> sx, s_min |-> ScaleDown(s),
        v_max |-> vx, v_min |-> ScaleDown(v),
        lower |-> <<ScaleDown(h), ScaleDown(s), ScaleDown(v)>>,
        upper |-> <<hx, sx, vx>>] :
         hx \in Narrow(ScaleUp(h)), sx \in Narrow(ScaleUp(s)),
         vx \in Narrow(ScaleUp(v))}

generic_calibration(c) ==
  [c EXCEPT !.h_max = 25, !.h_min = 0, !.s_max = 150, !.s_min = 10,
            !.v_max = 255, !.v_min = 60, !.done = TRUE]

\* A calibration_t nobody has written yet: every byte holds the same garbage;
\* done is false, as the creator of the band leaves it.
Uninitialised(g) ==
  [done |-> FALSE, h_max |-> g, h_min |-> g, s_max |-> g, s_min |-> g,
   v_max |-> g, v_min |-> g, lower |-> <<g, g, g>>, upper |-> <<g, g, g>>]

\* The mutant of the loop condition that never looks at the key.
LoopCondition_ignores_key(k, done, t) == t < TimerBudget

\* (cvWaitKey(10) != 'q' || calibration->done) && timer < 90
LoopCondition(k, done, t) == (k # "q" \/ done) /\ t < TimerBudget

CalInit ==
  /\ \E g \in {0, 255} : calibration = Uninitialised(g)
  /\ pc = "idle" /\ timer = 0 /\ key = "none"
  /\ frame = NoFrame /\ captured = NoFrame
  /\ reg_x = 0 /\ reg_y = 0 /\ reg_height = 0 /\ reg_width = 0
  /\ x = 0 /\ y = 0 /\ yo = 0 /\ xo = 0 /\ layout = <<>>
  /\ array_list = <<>> /\ old_list = <<>>
  /\ fn = "none" /\ left = 0 /\ right = 0 /\ ret = 0

\* generic_calibration(c), called while no calibrate call is running.
CallGenericCalibration ==
  /\ pc = "idle"
  /\ calibration' = generic_calibration(calibration)
  /\ UNCHANGED <<sortVars, frame, captured, regVars, pc, timer, key, blurVars>>

\* calibrate, lines 147-154: the locals and done = false.
CallCalibrate ==
  /\ pc = "idle"
  /\ frame' = NoFrame /\ captured' = NoFrame
  /\ calibration' = [calibration EXCEPT !.done = FALSE]
  /\ reg_x' = 0 /\ reg_y' = 0 /\ reg_height' = 0 /\ reg_width' = 0
  /\ timer' = 0
  /\ pc' = "loop"
  /\ UNCHANGED <<sortVars, key, blurVars>>

\* One pass of the loop, lines 156-173: the condition holds, a frame is
\* queried, and a frame that is there is overlaid, mirrored and shown.
LoopIteration ==
  /\ pc = "loop"
  /\ \E k \in Keys :
       /\ key' = k
       /\ LoopCondition(k, calibration.done, timer)
  /\ \E next \in CaptureStream :
       /\ captured' = next
       /\ IF next # NoFrame
            THEN LET rx == IF reg_x = 0 THEN next.width \div 2 ELSE reg_x
                     ry == IF reg_x = 0 THEN next.height \div 2 ELSE reg_y
                     rh == IF reg_x = 0 THEN next.height \div 20 ELSE reg_height
                     rw == IF reg_x = 0 THEN next.width \div 20 ELSE reg_width
                 IN  /\ reg_x' = rx /\ reg_y' = ry
                     /\ reg_height' = rh /\ reg_width' = rw
                     /\ frame' = Shown(next, rx, ry, rh, rw)
            ELSE /\ frame' = NoFrame
                 /\ UNCHANGED regVars
  /\ timer' = timer + 1
  /\ UNCHANGED <<sortVars, pc, calibration, blurVars>>

\* The loop condition fails: control goes to line 174.
LoopExit ==
  /\ pc = "loop"
  /\ \E k \in Keys :
       /\ key' = k
       /\ ~LoopCondition(k, calibration.done, timer)
  /\ pc' = "cvt_hsv"
  /\ UNCHANGED <<sortVars, frame, captured, regVars, timer, calibration, blurVars>>

\* Line 174: cvCvtColor(frame, frame, CV_BGR2HSV).  With the null pointer for
\* a frame the call has no image to work on and the run is lost.
ConvertToHSV ==
  /\ pc = "cvt_hsv"
  /\ IF frame = NoFrame
       THEN pc' = "fault" /\ UNCHANGED frame
       ELSE pc' = "final" /\ frame' = InHSV(frame)
  /\ UNCHANGED <<sortVars, captured, regVars, timer, calibration, key, blurVars>>

\* Line 176: final_calibration on the converted frame.
FinalCalibration ==
  /\ pc = "final"
  /\ calibration' \in final_calibration(frame, reg_x, reg_y, reg_height, reg_width)
  /\ pc' = "cvt_bgr"
  /\ UNCHANGED <<sortVars, frame, captured, regVars, timer, key, blurVars>>

\* Line 177: cvCvtColor(frame, frame, CV_HSV2BGR).
ConvertToBGR ==
  /\ pc = "cvt_bgr"
  /\ frame' = cvCvtColor(frame, "CV_HSV2BGR")
  /\ pc' = "destroy"
  /\ UNCHANGED <<sortVars, captured, regVars, timer, calibration, key, blurVars>>

\* Lines 178-179: the window is destroyed and calibrate returns.
Return ==
  /\ pc = "destroy"
  /\ pc' = "idle"
  /\ frame' = NoFrame /\ captured' = NoFrame
  /\ reg_x' = 0 /\ reg_y' = 0 /\ reg_height' = 0 /\ reg_width' = 0
  /\ timer' = 0 /\ key' = "none"
  /\ UNCHANGED <<sortVars, calibration, blurVars>>

CalNext ==
  \/ CallGenericCalibration
  \/ CallCalibrate
  \/ LoopIteration
  \/ LoopExit
  \/ ConvertToHSV
  \/ FinalCalibration
  \/ ConvertToBGR
  \/ Return

CalSpec == CalInit /\ [][CalNext]_vars

\* A pass of the loop is never suspended for ever: cvWaitKey(10) returns after
\* its ten milliseconds and cvQueryFrame returns a frame or the null pointer.
LoopStep == LoopIteration \/ LoopExit

CalFairSpec == CalSpec /\ WF_vars(LoopStep)

(***************************************************************************)
(* Claims about the calibration band and calibrate.                        *)
(***************************************************************************)
\* C1: whenever done = true the stored 8-bit bounds satisfy h_min <= h_max,
\* s_min <= s_max and v_min <= v_max.
C1_MinAtMostMax ==
  calibration.done =>
    /\ calibration.h_min <= calibration.h_max
    /\ calibration.s_min <= calibration.s_max
    /\ calibration.v_min <= calibration.v_max

\* C2: when the acquisition loop ends without a frame, calibrate is in an
\* explicit "no frame acquired" error state: it does not go on to the HSV
\* conversion and the sampling with an empty frame.
C2_NoFrameIsSurfaced ==
  (frame = NoFrame /\ pc \notin {"idle", "loop"}) => pc = "no_frame_acquired"

\* C3: the loop runs at most 90 times whatever the stream and the keys are: a
\* pass starts only with timer < 90 and a key other than 'q', and counts
\* itself; a poll that returns 'q' ends the loop; and a call that is in the
\* loop always reaches the conversion behind it.
C3_LoopEnds ==
  /\ [](pc = "loop" => timer <= TimerBudget)
  /\ [][(pc = "loop" /\ pc' = "loop")
          => (timer < TimerBudget /\ timer' = timer + 1 /\ key' # "q")]_vars
  /\ [][(pc = "loop" /\ key' = "q") => pc' = "cvt_hsv"]_vars
  /\ (pc = "loop" ~> pc = "cvt_hsv")

\* The loop was left because the budget of 90 passes was used up, the last
\* poll not being the confirm key.
C3_Witness == pc = "cvt_hsv" /\ timer = TimerBudget /\ key # "q"

\* C8: whenever done = true the rendering vectors mirror the bounds.
C8_VectorsMirrorBounds ==
  calibration.done =>
    /\ calibration.lower
         = <<calibration.h_min, calibration.s_min, calibration.v_min>>
    /\ calibration.upper
         = <<calibration.h_max, calibration.s_max, calibration.v_max>>

\* C10: with the box calibrate fixes, every pixel final_calibration samples is
\* one overlay_frame left alone: in the frame the loop leaves behind, each
\* sampled byte is still the byte the stream delivered for the mirrored pixel.
C10_SampledPixelsNotDarkened ==
  (/\ pc = "cvt_hsv"
   /\ frame # NoFrame
   /\ [reg_x |-> reg_x, reg_y |-> reg_y, reg_height |-> reg_height,
       reg_width |-> reg_width] = CentreBox(frame))
    => \A px \in (reg_x - reg_width)..(reg_x + reg_width - 1),
          py \in (reg_y - reg_height)..(reg_y + reg_height - 1),
          w \in 0..2 :
         ByteAt(frame, px, py, w) = ByteAt(captured, frame.width - 1 - px, py, w)

(***************************************************************************)
(* median_blur.c: median_blur.                                             *)
(* array_list is the 121-byte buffer of the call.  The two gathering loops *)
(* run yo and xo from 0 to num_offsets inclusive, so stores are made at     *)
(* indices up to 132; what a store behind the buffer hits depends on the   *)
(* build.  layout says which local variable, if any, has its four bytes at *)
(* buffer index layout.at and after.                                       *)
(***************************************************************************)
BLUR_RADIUS == 5

num_offsets == 2 * BLUR_RADIUS + 1

num_elements == num_offsets * num_offsets

\* The byte the memory around the frame's buffer holds in a run.
Garbage == {0, 255}

\* behind: what lies behind the buffer, at index at; outside: what a read
\* outside the frame's buffer yields.
Layouts ==
  {[behind |-> "padding", at |-> num_elements, outside |-> g] : g \in Garbage}
    \cup {[behind |-> v, at |-> a, outside |-> g] :
            v \in {"x", "y"}, a \in {124, 128}, g \in Garbage}

\* A 32-bit int with byte k (0 = lowest) replaced by b (two's complement,
\* little-endian).
SetByte(v, k, b) ==
  LET low24 == v % 16777216
      old   == <<low24 % 256, (low24 \div 256) % 256, low24 \div 65536,
                 (v \div 16777216) % 256>>
      new   == [old EXCEPT ![k + 1] = b]
      top   == IF new[4] >= 128 THEN new[4] - 256 ELSE new[4]
  IN  top * 16777216 + new[3] * 65536 + new[2] * 256 + new[1]

\* The offset row * widthStep + column if it lies in the frame's buffer,
\* and -1 if it lies outside.
BufferOffset(f, row, column) ==
  IF row < -65536 \/ row > 65536 \/ column < -65536 \/ column > 65536
    THEN -1
    ELSE LET o == row * f.widthStep + column
         IN  IF o >= 0 /\ o < Len(f.imageData) THEN o ELSE -1

\* The frames median_blur is called with: w x h pixels of n channels, pad
\* bytes of row padding, and bytes scattered over 0..250 from a seed.
BlurFrame(w, h, n, pad, seed) ==
  [width |-> w, height |-> h, nChannels |-> n, widthStep |-> w * n + pad,
   imageData |->
     [k \in 1..(h * (w * n + pad)) |-> (7 * k * k + 13 * k + seed) % 251]]

MaxBorder == 1    \* frames are up to 11 + MaxBorder pixels wide and high

BlurInit ==
  /\ \E w \in num_offsets..(num_offsets + MaxBorder),
        h \in num_offsets..(num_offsets + MaxBorder),
        n \in {1, 3}, pad \in {0, 1}, seed \in {0, 100} :
       frame = BlurFrame(w, h, n, pad, seed)
  /\ captured = frame
  /\ layout \in Layouts
  /\ array_list = [k \in 1..num_elements |-> 0]
  /\ old_list = <<>>
  /\ fn = "none" /\ left = 0 /\ right = 0 /\ ret = 0
  /\ reg_x = 0 /\ reg_y = 0 /\ reg_height = 0 /\ reg_width = 0
  /\ pc = "idle" /\ timer = 0 /\ calibration = <<>> /\ key = "none"
  /\ x = 0 /\ y = 0 /\ yo = 0 /\ xo = 0

\* Where control is after the loop variables have taken the values cx, cy at
\* the test of the x loop: in the window of (cx, cy), in a later row, or out.
RECURSIVE AtTestOfX(_, _, _)
AtTestOfX(f, cx, cy) ==
  IF cx < f.width - BLUR_RADIUS
    THEN [pc |-> "gather", x |-> cx, y |-> cy]
    ELSE IF cy + 1 < f.height - BLUR_RADIUS
           THEN AtTestOfX(f, BLUR_RADIUS, cy + 1)
           ELSE [pc |-> "done", x |-> cx, y |-> cy + 1]

\* Lines 51-61: the channel check and the entry into the loops.
CallMedianBlur ==
  /\ pc = "idle"
  /\ IF frame.nChannels # 1
       THEN pc' = "exit_failure" /\ UNCHANGED <<x, y>>
       ELSE IF BLUR_RADIUS < frame.height - BLUR_RADIUS
              THEN LET at == AtTestOfX(frame, BLUR_RADIUS, BLUR_RADIUS)
                   IN  pc' = at.pc /\ x' = at.x /\ y' = at.y
              ELSE pc' = "done" /\ x' = 0 /\ y' = BLUR_RADIUS
  /\ yo' = 0 /\ xo' = 0
  /\ UNCHANGED <<sortVars, frame, captured, regVars, timer, calibration, key,
                 layout>>

\* The index the pending store of the gathering loops writes, line 65.
StoreIndex == num_offsets * yo + xo

\* The offset in imageData the pending store reads, lines 66-67.
LoadOffset == BufferOffset(frame, y + yo - BLUR_RADIUS, x + xo - BLUR_RADIUS)

\* The byte read at offset o of the frame's buffer (-1: outside of it).
Load(f, o) == IF o >= 0 THEN f.imageData[o + 1] ELSE layout.outside

\* Lines 63-69: one store of the gathering loops, and the step to the next.
GatherStore ==
  /\ pc = "gather"
  /\ LET b      == Load(frame, LoadOffset)
         i      == StoreIndex
         hitsX  == layout.behind = "x" /\ i >= layout.at /\ i < layout.at + 4
         hitsY  == layout.behind = "y" /\ i >= layout.at /\ i < layout.at + 4
     IN  /\ array_list' = IF i < num_elements
                            THEN [array_list EXCEPT ![i + 1] = b]
                            ELSE array_list
         /\ x' = IF hitsX THEN SetByte(x, i - layout.at, b) ELSE x
         /\ y' = IF hitsY THEN SetByte(y, i - layout.at, b) ELSE y
  /\ IF xo + 1 <= num_offsets
       THEN xo' = xo + 1 /\ yo' = yo /\ pc' = "gather"
       ELSE IF yo + 1 <= num_offsets
              THEN xo' = 0 /\ yo' = yo + 1 /\ pc' = "gather"
              ELSE xo' = xo + 1 /\ yo' = yo + 1 /\ pc' = "median"
  /\ UNCHANGED <<old_list, fn, left, right, ret, frame, captured, regVars,
                 timer, calibration, key, layout>>

\* Lines 70-71 and the loop steps behind them: the median of the buffer is
\* stored at (x, y).  A store outside the frame's buffer ends the model's run.
StoreMedian ==
  /\ pc = "median"
  /\ LET m == median(array_list, num_elements)
         o == BufferOffset(frame, y, x)
     IN  /\ array_list' = m.array_list
         /\ IF o >= 0
              THEN /\ frame' = [frame EXCEPT !.imageData[o + 1] = m.ret]
                   /\ LET at == AtTestOfX(frame, x + 1, y)
                      IN  pc' = at.pc /\ x' = at.x /\ y' = at.y
              ELSE /\ pc' = "fault"
                   /\ UNCHANGED <<frame, x, y>>
  /\ yo' = 0 /\ xo' = 0
  /\ UNCHANGED <<old_list, fn, left, right, ret, captured, regVars, timer,
                 calibration, key, layout>>

BlurNext == CallMedianBlur \/ GatherStore \/ StoreMedian

BlurSpec == BlurInit /\ [][BlurNext]_vars

\* The pixels within BLUR_RADIUS of an edge of frame f.
Border(f) ==
  {p \in (0..(f.width - 1)) \X (0..(f.height - 1)) :
     \/ p[1] < BLUR_RADIUS \/ p[1] >= f.width - BLUR_RADIUS
     \/ p[2] < BLUR_RADIUS \/ p[2] >= f.height - BLUR_RADIUS}

\* C7: for a single-channel frame of at least 11 x 11 pixels median_blur
\* writes only pixels with 5 <= x < width - 5 and 5 <= y < height - 5, so
\* every pixel within 5 of an edge keeps the value it had before the call.
C7_BorderUntouched ==
  (frame.nChannels = 1 /\ frame.width >= num_offsets /\ frame.height >= num_offsets)
    => \A p \in Border(frame) :
         ByteAt(frame, p[1], p[2], 0) = ByteAt(captured, p[1], p[2], 0)

\* C9: every store of window gathering is at a buffer index in 0..120, and
\* reads the frame at a row in y-5..y+5 and a column in x-5..x+5.
C9_GatherStaysInWindow ==
  pc = "gather" =>
    /\ StoreIndex \in 0..(num_elements - 1)
    /\ xo <= 2 * BLUR_RADIUS
    /\ yo <= 2 * BLUR_RADIUS

====
